---- MODULE Spec2Model ----
(***************************************************************************)
(* Token authentication, ownership authorization and reaction counters of  *)
(* the blog back end, modelled from core/authentication.py,                *)
(* core/middleware.py, core/permissions.py, core/models.py,                *)
(* core/services.py and the api/ routers.                                  *)
(*                                                                         *)
(* The relational store is modelled as sets of rows.  Time is counted in   *)
(* days.  A transaction's writes become visible in one step (its commit);  *)
(* its reads are separate steps, as under READ COMMITTED.                  *)
(***************************************************************************)
EXTENDS Integers, Sequences, FiniteSets, TLC

VARIABLES now, tokens, revoked, lastOp,
          likes, like_count, dislike_count, nextPk, wk, opsLeft, prevOp,
          resources, nextId, target_status,
          users, authing, viewing, view_count

authVars == <<now, tokens, revoked>>
likeVars == <<likes, like_count, dislike_count, nextPk, wk, opsLeft, prevOp,
             target_status>>
permVars == <<resources, nextId>>
sessVars == <<users, authing, viewing, view_count>>
vars == <<now, tokens, revoked, lastOp,
          likes, like_count, dislike_count, nextPk, wk, opsLeft, prevOp,
          resources, nextId, target_status, users, authing, viewing,
          view_count>>

----------------------------------------------------------------------------
(* Bounds of the model *)

MaxNow == 30
MaxTokens == 2
MaxOps == 3
MaxPosts == 2
MaxComments == 1
MaxViews == 2

(* Program constants *)

TokenLength == 256
TokenTTLDays == 30

----------------------------------------------------------------------------
(* Principals *)

Users == {"alice", "bob"}
NoUser == "anonymous"

(* "root" is created with create_superuser: is_superuser is set and the  *)
(* role keeps its default.                                               *)
is_superuser(u) == u = "root"
role(u) == "user"

is_staff(u) == u = "root"

(* User.is_admin *)
is_admin(u) == role(u) = "admin" \/ is_superuser(u)

Kinds == {"post", "comment"}
NewContent == "text1"
NoId == 0
Never == -1

(* The User table: username -> account.  alice, bob and root have         *)
(* registered; "carol" has not.                                           *)
Usernames == Users \cup {"root", "carol"}
Password == "password123"
NoAccount == [registered |-> FALSE, is_active |-> FALSE, password |-> ""]
(* The articles of core/models.py, their authors and require_login flags. *)
Articles == {"a1"}
author(t) == "alice"
require_login(t) == FALSE

(* The get_post requests in flight, each holding the post row it loaded,   *)
(* and the number of reads served per post.                               *)
NoViews == [loaded |-> {}, served |-> [i \in 1 .. MaxPosts |-> 0]]

InitialUsers ==
    [u \in Usernames |->
        IF u = "carol" THEN NoAccount
        ELSE [registered |-> TRUE, is_active |-> TRUE, password |-> Password]]

(* Secrets a client can present.  "k1".."k4" are well-formed 256-character *)
(* strings; "short" is a malformed credential.                             *)
WellFormedSecrets == {"k1", "k2", "k3", "k4"}
Secrets == WellFormedSecrets \cup {"short"}

SecretLen(s) == IF s = "short" THEN 11 ELSE TokenLength

----------------------------------------------------------------------------
(* AuthToken table *)

TokenRows(toks, s) == {r \in toks : r.token = s}

(* A generator that would return a secret of another length. *)
generate_token_short(toks) == "short"

(* AuthToken.generate_token: a fresh 256-character secret. *)
SecretPool == <<"k1", "k2", "k3", "k4">>

generate_token(toks) ==
    LET free == {i \in DOMAIN SecretPool : TokenRows(toks, SecretPool[i]) = {}}
    IN SecretPool[CHOOSE i \in free : \A j \in free : i <= j]

CanGenerate(toks) == Cardinality(toks) < MaxTokens

(* A lookup that would still accept a token at the instant it expires. *)
ValidTokenRowsInclusive(toks, s, t) ==
    {r \in toks : r.token = s /\ r.is_active /\ r.expires_at >= t}

(* AuthToken.objects.get(token=token, is_active=True, expires_at__gt=now) *)
ValidTokenRows(toks, s, t) ==
    {r \in toks : r.token = s /\ r.is_active /\ r.expires_at > t}

(* A token issue that would end the user's earlier sessions. *)
create_user_token_single_session(toks, u, t) ==
    {IF r.user = u THEN [r EXCEPT !.is_active = FALSE] ELSE r : r \in toks}
        \cup {[token |-> generate_token(toks), user |-> u, is_active |-> TRUE,
               created_at |-> t, expires_at |-> t + TokenTTLDays,
               last_used |-> Never]}

(* TokenService.create_user_token *)
create_user_token(toks, u, t) ==
    toks \cup {[token |-> generate_token(toks), user |-> u, is_active |-> TRUE,
                created_at |-> t, expires_at |-> t + TokenTTLDays,
                last_used |-> Never]}

(* A revocation that would deactivate only the newest token of the user. *)
revoke_newest_token(toks, u) ==
    {IF r.user = u /\ r.is_active
        /\ \A r2 \in toks : r2.user = u => r2.created_at <= r.created_at
     THEN [r EXCEPT !.is_active = FALSE] ELSE r : r \in toks}

(* TokenService.revoke_user_tokens: filter(user, is_active).update(False) *)
revoke_user_tokens(toks, u) ==
    {IF r.user = u /\ r.is_active THEN [r EXCEPT !.is_active = FALSE] ELSE r
        : r \in toks}

(* TokenService.get_user_from_token *)
get_user_from_token(toks, s, t) ==
    IF ValidTokenRows(toks, s, t) # {}
    THEN (CHOOSE r \in ValidTokenRows(toks, s, t) : TRUE).user
    ELSE NoUser

----------------------------------------------------------------------------
(* Reactions: the Like table and the denormalized counters of Article and  *)
(* Comment.                                                                *)

Targets == {"a1", "c1"}
IsArticle(t) == t = "a1"
LikeTypes == {"like", "dislike"}
NoType == "none"
InvalidType == "love"

Workers == {"w1", "w2", "w3"}
IdleWorker == [pc |-> "idle", user |-> NoUser, target |-> "a1", kind |-> "like",
               pk |-> 0, found |-> NoType, first |-> NoType]

(* The store a transaction works on; err names the constraint that aborted *)
(* it, if any.                                                             *)
Store(lk, lc, dc) == [likes |-> lk, like_count |-> lc, dislike_count |-> dc, err |-> ""]

(* A Like row is [pk, user, article, comment, like_type]; a foreign key   *)
(* that is not set is Null.                                              *)
Null == "null"

LikeRow(pk, u, t, type) ==
    [pk |-> pk, user |-> u, article |-> IF IsArticle(t) THEN t ELSE Null,
     comment |-> IF IsArticle(t) THEN Null ELSE t, like_type |-> type]

(* Like.objects.filter(user=user, article=article) or                    *)
(* Like.objects.filter(user=user, comment=comment)                       *)
PairRows(lk, u, t) ==
    {r \in lk : r.user = u /\ IF IsArticle(t) THEN r.article = t ELSE r.comment = t}

(* Like.objects.filter(user=..., article/comment=...).first() *)
FirstType(lk, u, t) ==
    IF PairRows(lk, u, t) = {} THEN NoType
    ELSE (CHOOSE r \in PairRows(lk, u, t) : TRUE).like_type

FirstPk(lk, u, t) ==
    IF PairRows(lk, u, t) = {} THEN 0
    ELSE (CHOOSE r \in PairRows(lk, u, t) : TRUE).pk

(* A counter column without the CHECK. *)
PositiveIntegerFieldUnchecked(v) == TRUE

(* PositiveIntegerField: the column's CHECK (value >= 0). *)
PositiveIntegerField(v) == v >= 0

(* filter(pk=...).update(like_count=F('like_count') + d): a relative       *)
(* update executed by the store.                                           *)
UpdateLikeCount(db, t, d) ==
    IF db.err # "" THEN db
    ELSE IF ~PositiveIntegerField(db.like_count[t] + d) THEN [db EXCEPT !.err = "check"]
    ELSE [db EXCEPT !.like_count[t] = @ + d]

UpdateDislikeCount(db, t, d) ==
    IF db.err # "" THEN db
    ELSE IF ~PositiveIntegerField(db.dislike_count[t] + d) THEN [db EXCEPT !.err = "check"]
    ELSE [db EXCEPT !.dislike_count[t] = @ + d]

(* Like.update_counters *)
update_counters(db, t, type) ==
    IF IsArticle(t)
    THEN IF type = "like" THEN UpdateLikeCount(db, t, 1) ELSE db
    ELSE IF type = "like" THEN UpdateLikeCount(db, t, 1)
         ELSE UpdateDislikeCount(db, t, 1)

(* Like.delete of the in-memory instance (pk, type): DELETE by primary key, *)
(* then the decrement chosen by the instance's like_type.                   *)
Like_delete(db, pk, t, type) ==
    LET d1 == IF db.err # "" THEN db
              ELSE [db EXCEPT !.likes = {r \in @ : r.pk # pk}]
    IN IF IsArticle(t)
       THEN IF type = "like" THEN UpdateLikeCount(d1, t, -1) ELSE d1
       ELSE IF type = "like" THEN UpdateLikeCount(d1, t, -1)
            ELSE UpdateDislikeCount(d1, t, -1)

(* Like.save of an instance that has a primary key: UPDATE by pk, INSERT   *)
(* when no row has it (subject to the unique constraints), then            *)
(* update_counters.                                                        *)
Like_save_existing(db, pk, u, t, type) ==
    LET d1 ==
          IF db.err # "" THEN db
          ELSE IF \E r \in db.likes : r.pk = pk
          THEN [db EXCEPT !.likes = {IF r.pk = pk THEN [r EXCEPT !.like_type = type]
                                     ELSE r : r \in @}]
          ELSE IF PairRows(db.likes, u, t) # {}
          THEN [db EXCEPT !.err = "unique"]
          ELSE [db EXCEPT !.likes = @ \cup {LikeRow(pk, u, t, type)}]
    IN update_counters(d1, t, type)

(* A save of a new instance into a table without the unique constraints.  *)
Like_save_new_unconstrained(db, pk, u, t, type) ==
    LET d1 ==
          IF db.err # "" THEN db
          ELSE [db EXCEPT !.likes = @ \cup {LikeRow(pk, u, t, type)}]
    IN update_counters(d1, t, type)

(* Like.save of a new instance whose duplicate check found nothing:        *)
(* INSERT, then update_counters.                                           *)
Like_save_new(db, pk, u, t, type) ==
    LET d1 ==
          IF db.err # "" THEN db
          ELSE IF PairRows(db.likes, u, t) # {}
          THEN [db EXCEPT !.err = "unique"]
          ELSE [db EXCEPT !.likes = @ \cup {LikeRow(pk, u, t, type)}]
    IN update_counters(d1, t, type)

(* LikeService._update_counters *)
_update_counters(db, t, old, new) ==
    IF IsArticle(t)
    THEN IF old = "like" /\ new = "dislike" THEN UpdateLikeCount(db, t, -1)
         ELSE IF old = "dislike" /\ new = "like" THEN UpdateLikeCount(db, t, 1)
         ELSE IF old = NoType /\ new = "like" THEN UpdateLikeCount(db, t, 1)
         ELSE IF old = "like" /\ new = NoType THEN UpdateLikeCount(db, t, -1)
         ELSE db
    ELSE IF old = "like" /\ new = "dislike"
         THEN UpdateDislikeCount(UpdateLikeCount(db, t, -1), t, 1)
         ELSE IF old = "dislike" /\ new = "like"
         THEN UpdateDislikeCount(UpdateLikeCount(db, t, 1), t, -1)
         ELSE IF old = NoType
         THEN IF new = "like" THEN UpdateLikeCount(db, t, 1)
              ELSE IF new = "dislike" THEN UpdateDislikeCount(db, t, 1)
              ELSE db
         ELSE IF new = NoType
         THEN IF old = "like" THEN UpdateLikeCount(db, t, -1)
              ELSE IF old = "dislike" THEN UpdateDislikeCount(db, t, -1)
              ELSE db
         ELSE db

(* LikeService.toggle_like run from start to end with no other request in *)
(* between; newPk is the key a created row gets.                           *)
toggle_like(db, newPk, u, t, k) ==
    LET found == FirstType(db.likes, u, t)
        pk == FirstPk(db.likes, u, t)
    IN IF found = k THEN Like_delete(db, pk, t, found)
       ELSE IF found # NoType
       THEN _update_counters(Like_save_existing(db, pk, u, t, k), t, found, k)
       ELSE _update_counters(Like_save_new(db, newPk, u, t, k), t, NoType, k)

EmptyStore == Store({}, [t \in Targets |-> 0], [t \in Targets |-> 0])

(* Article.ArticleStatus and Comment.CommentStatus, as far as the          *)
(* reactions read them.                                                    *)
ArticleStatuses == {"draft", "published"}
CommentStatuses == {"pending", "approved", "spam"}

(* An eligibility check that lets every article through. *)
is_published_unchecked(status) == TRUE

(* Article.is_published, Comment.is_approved *)
is_published(status) == status = "published"
is_approved(status) == status = "approved"

AllEligible == [t \in Targets |-> IF IsArticle(t) THEN "published" ELSE "approved"]

----------------------------------------------------------------------------
Init ==
    /\ now = 0
    /\ tokens = {}
    /\ revoked = {}
    /\ lastOp = [op |-> "init"]
    /\ users = InitialUsers
    /\ authing = {}
    /\ viewing = NoViews
    /\ view_count = [t \in Articles |-> 0]
    /\ prevOp = [op |-> "init"]
    /\ likes = {}
    /\ like_count = [t \in Targets |-> 0]
    /\ dislike_count = [t \in Targets |-> 0]
    /\ nextPk = 1
    /\ wk = [w \in Workers |-> IdleWorker]
    /\ opsLeft = MaxOps
    /\ resources = {}
    /\ nextId = [k \in Kinds |-> 1]
    /\ target_status = AllEligible

(* The clock advances; the model samples it every TickDays. *)
TickDays == {15}

Tick ==
    /\ \E d \in TickDays :
        /\ now + d <= MaxNow
        /\ now' = now + d
    /\ lastOp' = [op |-> "tick"]
    /\ UNCHANGED <<tokens, revoked>>
    /\ UNCHANGED <<likeVars, permVars, sessVars>>

(* api/auth/router.py login: a successful login issues a token. *)
Login(u) ==
    /\ CanGenerate(tokens)
    /\ tokens' = create_user_token(tokens, u, now)
    /\ lastOp' = [op |-> "login", user |-> u, status |-> 200,
                  token |-> generate_token(tokens),
                  token_length |-> SecretLen(generate_token(tokens))]
    /\ UNCHANGED <<now, revoked>>
    /\ UNCHANGED <<likeVars, permVars, sessVars>>

(* A rejection that would tell the client why the lookup found no row. *)
DoesNotExistDetailByReason(toks, s, t) ==
    IF TokenRows(toks, s) = {} THEN "Invalid or expired token"
    ELSE IF \E r \in TokenRows(toks, s) : ~r.is_active THEN "Token deactivated"
    ELSE "Token expired"

(* TokenAuthentication.authenticate, except AuthToken.DoesNotExist: the    *)
(* message of the AuthenticationError, which authentication_error_handler  *)
(* returns as the detail of the 401 response.                              *)
DoesNotExistDetail(toks, s, t) == "Invalid or expired token"

(* TokenAuthentication.authenticate *)
Authenticate(s) ==
    /\ UNCHANGED <<likeVars, permVars, sessVars>>
    /\ IF SecretLen(s) # TokenLength
       THEN /\ lastOp' = [op |-> "authenticate", secret |-> s, status |-> 401,
                          principal |-> NoUser, detail |-> "Invalid token length",
                          looked_up |-> FALSE]
            /\ UNCHANGED <<authVars, permVars, sessVars>>
       ELSE IF ValidTokenRows(tokens, s, now) # {}
       THEN LET row == CHOOSE r \in ValidTokenRows(tokens, s, now) : TRUE
            IN /\ tokens' = (tokens \ {row}) \cup {[row EXCEPT !.last_used = now]}
               /\ lastOp' = [op |-> "authenticate", secret |-> s, status |-> 200,
                             principal |-> row.user, detail |-> "",
                             looked_up |-> TRUE]
               /\ UNCHANGED <<now, revoked>>
       ELSE /\ lastOp' = [op |-> "authenticate", secret |-> s, status |-> 401,
                          principal |-> NoUser,
                          detail |-> DoesNotExistDetail(tokens, s, now),
                          looked_up |-> TRUE]
            /\ UNCHANGED <<authVars, permVars, sessVars>>

----------------------------------------------------------------------------
(* Request pipeline of the api/auth router: the token middleware runs      *)
(* first, then the operation's auth callable, then the handler.            *)

NoHeader == "<no header>"
AuthUnset == "<unset>"
AuthTrue == "True"
Credentials == Secrets \cup {NoHeader}

(* TokenAuthenticationMiddleware.process_request: the request's user and   *)
(* auth attributes after the middleware, and whether it queried the token  *)
(* table: it passes whatever follows "Bearer " to get_user_from_token.     *)
process_request(toks, cred, t) ==
    IF cred # NoHeader /\ get_user_from_token(toks, cred, t) # NoUser
    THEN [user |-> get_user_from_token(toks, cred, t), auth |-> cred,
          looked_up |-> TRUE]
    ELSE [user |-> NoUser, auth |-> AuthUnset, looked_up |-> cred # NoHeader]

(* IsAuthenticated.__call__ as an operation's auth callable.  The value it *)
(* returns, bool(request.auth and request.user), becomes request.auth of   *)
(* the handler; reading a request.auth nobody set raises, which the API's  *)
(* handler for Exception answers with 500.                                 *)
IsAuthenticated(req) ==
    IF req.auth = AuthUnset
    THEN [status |-> 500, user |-> req.user, auth |-> AuthUnset]
    ELSE IF req.user # NoUser
    THEN [status |-> 200, user |-> req.user, auth |-> AuthTrue]
    ELSE [status |-> 401, user |-> req.user, auth |-> req.auth]

(* api/auth/router.py logout: the handler's body. *)
logout(toks, req) ==
    IF req.auth # "" /\ {r \in toks : r.token = req.auth /\ r.is_active} # {}
    THEN {IF r.token = req.auth /\ r.is_active
          THEN [r EXCEPT !.is_active = FALSE] ELSE r : r \in toks}
    ELSE toks

(* POST /auth/logout *)
Logout(cred) ==
    LET req == IsAuthenticated(process_request(tokens, cred, now))
    IN /\ tokens' = IF req.status = 200 THEN logout(tokens, req) ELSE tokens
       /\ lastOp' = [op |-> "logout", secret |-> cred, status |-> req.status,
                     looked_up |-> process_request(tokens, cred, now).looked_up,
                     principal |-> IF req.status = 200 THEN req.user ELSE NoUser]
       /\ UNCHANGED <<now, revoked>>
       /\ UNCHANGED <<likeVars, permVars, sessVars>>

(* POST /auth/revoke-all *)
RevokeAll(cred) ==
    LET req == IsAuthenticated(process_request(tokens, cred, now))
    IN /\ tokens' = IF req.status = 200
                    THEN revoke_user_tokens(tokens, req.user) ELSE tokens
       /\ revoked' = IF req.status = 200
                     THEN revoked \cup {r.token : r \in {x \in tokens : x.user = req.user}}
                     ELSE revoked
       /\ lastOp' = [op |-> "revoke_all", secret |-> cred, status |-> req.status,
                     looked_up |-> process_request(tokens, cred, now).looked_up,
                     principal |-> IF req.status = 200 THEN req.user ELSE NoUser]
       /\ UNCHANGED now
       /\ UNCHANGED <<likeVars, permVars, sessVars>>

(* GET /auth/profile *)
GetProfile(cred) ==
    LET req == IsAuthenticated(process_request(tokens, cred, now))
    IN /\ lastOp' = [op |-> "profile", secret |-> cred, status |-> req.status,
                     looked_up |-> process_request(tokens, cred, now).looked_up,
                     principal |-> IF req.status = 200 THEN req.user ELSE NoUser]
       /\ UNCHANGED <<authVars, likeVars, permVars, sessVars>>

NextAuth ==
    \/ Tick
    \/ \E u \in Users : Login(u)
    \/ \E s \in Secrets : Authenticate(s)
    \/ \E c \in Credentials : Logout(c)
    \/ \E c \in Credentials : RevokeAll(c)
    \/ \E c \in Credentials : GetProfile(c)

SpecAuth == Init /\ [][NextAuth]_vars

----------------------------------------------------------------------------
(* LikeService.toggle_like, one worker's request.                          *)

RowType(lk, u, t) == FirstType(lk, u, t)

(* The transaction's end: commit the store, or roll back when a constraint *)
(* aborted it (the exception reaches the caller).                          *)
Finish(w, db, action) ==
    LET ok == db.err = ""
        u == wk[w].user
        t == wk[w].target
    IN /\ likes' = IF ok THEN db.likes ELSE likes
       /\ like_count' = IF ok THEN db.like_count ELSE like_count
       /\ dislike_count' = IF ok THEN db.dislike_count ELSE dislike_count
       /\ wk' = [wk EXCEPT ![w] = IdleWorker]
       /\ prevOp' = IF lastOp.op = "toggle_like"
                    THEN [op |-> "toggle_like", user |-> lastOp.user,
                          target |-> lastOp.target, kind |-> lastOp.kind,
                          first |-> lastOp.first,
                          like_before |-> lastOp.like_before]
                    ELSE [op |-> lastOp.op]
       /\ lastOp' = [op |-> "toggle_like", user |-> u, target |-> t,
                     kind |-> wk[w].kind, first |-> wk[w].first,
                     action |-> IF ok THEN action ELSE "error", error |-> db.err,
                     like_before |-> like_count[t],
                     dislike_before |-> dislike_count[t],
                     like_after |-> IF ok THEN db.like_count[t] ELSE like_count[t],
                     dislike_after |-> IF ok THEN db.dislike_count[t]
                                       ELSE dislike_count[t],
                     row_after |-> IF ok THEN RowType(db.likes, u, t)
                                   ELSE RowType(likes, u, t)]
       /\ UNCHANGED <<authVars, permVars, sessVars, target_status>>

(* toggle_like up to the lookup of the existing like. *)
ToggleRead(w, u, t, k) ==
    /\ wk[w].pc = "idle"
    /\ opsLeft > 0
    /\ opsLeft' = opsLeft - 1
    /\ wk' = [wk EXCEPT ![w] = [pc |-> "found", user |-> u, target |-> t,
                                kind |-> k, pk |-> FirstPk(likes, u, t),
                                found |-> FirstType(likes, u, t),
                                first |-> FirstType(likes, u, t)]]
    /\ UNCHANGED <<likes, like_count, dislike_count, nextPk, prevOp, lastOp,
                   target_status>>
    /\ UNCHANGED <<authVars, permVars, sessVars>>

(* The like has the requested type: like.delete(). *)
ToggleRemove(w) ==
    /\ wk[w].pc = "found"
    /\ wk[w].found = wk[w].kind
    /\ Finish(w, Like_delete(Store(likes, like_count, dislike_count),
                             wk[w].pk, wk[w].target, wk[w].found), "removed")
    /\ UNCHANGED <<nextPk, opsLeft>>

(* The like has the other type: like.save(), then _update_counters. *)
ToggleChange(w) ==
    /\ wk[w].pc = "found"
    /\ wk[w].found \notin {NoType, wk[w].kind}
    /\ Finish(w, _update_counters(
                    Like_save_existing(Store(likes, like_count, dislike_count),
                                       wk[w].pk, wk[w].user, wk[w].target,
                                       wk[w].kind),
                    wk[w].target, wk[w].found, wk[w].kind), "changed")
    /\ UNCHANGED <<nextPk, opsLeft>>

(* No like was found: Like.objects.create() runs Like.save, which looks    *)
(* for an existing like of the pair once more.                             *)
ToggleCreateCheck(w) ==
    /\ wk[w].pc = "found"
    /\ wk[w].found = NoType
    /\ wk' = [wk EXCEPT ![w].pc = "saving",
                        ![w].pk = FirstPk(likes, wk[w].user, wk[w].target),
                        ![w].found = FirstType(likes, wk[w].user, wk[w].target)]
    /\ UNCHANGED <<likes, like_count, dislike_count, nextPk, opsLeft, prevOp, lastOp,
                   target_status>>
    /\ UNCHANGED <<authVars, permVars, sessVars>>

(* The rest of Like.save, then _update_counters(None, like_type). *)
ToggleCreateWrite(w) ==
    /\ wk[w].pc = "saving"
    /\ LET db0 == Store(likes, like_count, dislike_count)
           u == wk[w].user
           t == wk[w].target
           k == wk[w].kind
           db1 == IF wk[w].found = NoType
                  THEN Like_save_new(db0, nextPk, u, t, k)
                  ELSE IF wk[w].found = k
                  THEN Like_delete(db0, wk[w].pk, t, wk[w].found)
                  ELSE Like_save_existing(db0, wk[w].pk, u, t, k)
       IN Finish(w, _update_counters(db1, t, NoType, k), "added")
    /\ nextPk' = IF wk[w].found = NoType THEN nextPk + 1 ELSE nextPk
    /\ UNCHANGED opsLeft

(* toggle_like called with a like_type that is neither 'like' nor         *)
(* 'dislike': ValidationError before the transaction starts.              *)
ToggleInvalid(w, u, t, k) ==
    /\ wk[w].pc = "idle"
    /\ opsLeft > 0
    /\ k \notin LikeTypes
    /\ opsLeft' = opsLeft - 1
    /\ lastOp' = [op |-> "toggle_like", user |-> u, target |-> t,
                  kind |-> k, first |-> FirstType(likes, u, t),
                  action |-> "error", error |-> "invalid_like_type",
                  like_before |-> like_count[t],
                  dislike_before |-> dislike_count[t],
                  like_after |-> like_count[t],
                  dislike_after |-> dislike_count[t],
                  row_after |-> RowType(likes, u, t)]
    /\ UNCHANGED <<likes, like_count, dislike_count, nextPk, wk, prevOp,
                   target_status>>
    /\ UNCHANGED <<authVars, permVars, sessVars>>

(* The pool hands a request to its first idle worker. *)
WorkerOrder == <<"w1", "w2", "w3">>

IdleWorkers == {i \in DOMAIN WorkerOrder : wk[WorkerOrder[i]].pc = "idle"}

FirstIdleWorker ==
    WorkerOrder[CHOOSE i \in IdleWorkers : \A j \in IdleWorkers : i <= j]

NextLike ==
    \/ \E u \in Users, t \in Targets, k \in LikeTypes :
          /\ IdleWorkers # {}
          /\ ToggleRead(FirstIdleWorker, u, t, k)
    \/ \E w \in Workers : ToggleRemove(w)
    \/ \E w \in Workers : ToggleChange(w)
    \/ \E w \in Workers : ToggleCreateCheck(w)
    \/ \E w \in Workers : ToggleCreateWrite(w)

(* The store when concurrent service starts: empty, or holding the one    *)
(* reaction an earlier toggle_like request left.                           *)
InitLike ==
    /\ now = 0
    /\ tokens = {}
    /\ revoked = {}
    /\ lastOp = [op |-> "init"]
    /\ users = InitialUsers
    /\ authing = {}
    /\ viewing = NoViews
    /\ view_count = [t \in Articles |-> 0]
    /\ prevOp = [op |-> "init"]
    /\ wk = [w \in Workers |-> IdleWorker]
    /\ opsLeft = MaxOps
    /\ resources = {}
    /\ nextId = [k \in Kinds |-> 1]
    /\ target_status = AllEligible
    /\ \E db \in {EmptyStore} \cup {toggle_like(EmptyStore, 1, u, t, k) :
                                      u \in Users, t \in Targets, k \in LikeTypes} :
          /\ likes = db.likes
          /\ like_count = db.like_count
          /\ dislike_count = db.dislike_count
          /\ nextPk = IF db.likes = {} THEN 1 ELSE 2

SpecLike == InitLike /\ [][NextLike]_vars

(* One worker: requests are served one after another. *)
NextLikeSeq ==
    \/ \E u \in Users, t \in Targets, k \in LikeTypes : ToggleRead("w1", u, t, k)
    \/ ToggleRemove("w1")
    \/ ToggleChange("w1")
    \/ ToggleCreateCheck("w1")
    \/ ToggleCreateWrite("w1")

SpecLikeSeq == Init /\ [][NextLikeSeq]_vars

(* One worker, and callers that pass any like_type. *)
NextLikeKinds ==
    \/ \E u \in Users, t \in Targets, k \in LikeTypes : ToggleRead("w1", u, t, k)
    \/ \E u \in Users, t \in Targets : ToggleInvalid("w1", u, t, InvalidType)
    \/ ToggleRemove("w1")
    \/ ToggleChange("w1")
    \/ ToggleCreateCheck("w1")
    \/ ToggleCreateWrite("w1")

SpecLikeKinds == Init /\ [][NextLikeKinds]_vars

(* Every worker serves one principal of its own, who likes resources they  *)
(* have not reacted to.                                                    *)
PrincipalOf == [w \in Workers |-> IF w = "w1" THEN "alice"
                                  ELSE IF w = "w2" THEN "bob" ELSE "carol"]

NextLikeStress ==
    \/ \E w \in Workers, t \in Targets :
          /\ PairRows(likes, PrincipalOf[w], t) = {}
          /\ ToggleRead(w, PrincipalOf[w], t, "like")
    \/ \E w \in Workers : ToggleCreateCheck(w)
    \/ \E w \in Workers : ToggleCreateWrite(w)

SpecLikeStress == Init /\ [][NextLikeStress]_vars

----------------------------------------------------------------------------
(* The reaction endpoints of core/api.py: like_article and like_comment,   *)
(* each served from start to end.                                          *)

(* The action toggle_like returns. *)
toggle_action(db, u, t, k) ==
    IF FirstType(db.likes, u, t) = k THEN "removed"
    ELSE IF FirstType(db.likes, u, t) # NoType THEN "changed"
    ELSE "added"

(* The endpoint's answer after the service returned or raised. *)
LikeAnswer(op, u, t, k, db, detail_added, detail_other) ==
    LET db0 == Store(likes, like_count, dislike_count)
        ok == db.err = ""
        action == toggle_action(db0, u, t, k)
    IN [op |-> op, user |-> u, target |-> t, kind |-> k,
        eligible |-> TRUE,
        first |-> FirstType(likes, u, t),
        action |-> IF ok THEN action ELSE "error",
        status |-> IF ok THEN 200 ELSE 400,
        code |-> IF ok THEN "" ELSE "like_failed",
        detail |-> IF ~ok THEN db.err
                   ELSE IF action = "added" THEN detail_added ELSE detail_other]

(* The endpoint's answer when it rejects the request before the service. *)
LikeRejected(op, u, t, k, eligible, code) ==
    [op |-> op, user |-> u, target |-> t, kind |-> k, eligible |-> eligible,
     first |-> FirstType(likes, u, t), action |-> "none", status |-> 400,
     code |-> code, detail |-> code]

(* Commit of the service's transaction, or its rollback. *)
LikeCommit(db) ==
    /\ likes' = IF db.err = "" THEN db.likes ELSE likes
    /\ like_count' = IF db.err = "" THEN db.like_count ELSE like_count
    /\ dislike_count' = IF db.err = "" THEN db.dislike_count ELSE dislike_count
    /\ nextPk' = IF db.err = "" /\ (\E r \in db.likes : r.pk = nextPk)
                 THEN nextPk + 1 ELSE nextPk

(* POST /articles/{article_id}/like *)
like_article(u, t) ==
    /\ opsLeft > 0
    /\ opsLeft' = opsLeft - 1
    /\ IF ~is_published(target_status[t])
       THEN /\ lastOp' = LikeRejected("like_article", u, t, "like", FALSE,
                                      "not_published")
            /\ UNCHANGED <<likes, like_count, dislike_count, nextPk>>
       ELSE LET db == toggle_like(Store(likes, like_count, dislike_count),
                                  nextPk, u, t, "like")
            IN /\ LikeCommit(db)
               /\ lastOp' = LikeAnswer("like_article", u, t, "like", db,
                                       "Article liked successfully",
                                       "Article like removed")
    /\ UNCHANGED <<wk, prevOp, target_status, authVars, permVars, sessVars>>

(* POST /comments/{comment_id}/like?like_type=... *)
like_comment(u, t, like_type) ==
    /\ opsLeft > 0
    /\ opsLeft' = opsLeft - 1
    /\ IF ~is_approved(target_status[t])
       THEN /\ lastOp' = LikeRejected("like_comment", u, t, like_type, FALSE,
                                      "not_approved")
            /\ UNCHANGED <<likes, like_count, dislike_count, nextPk>>
       ELSE IF like_type \notin LikeTypes
       THEN /\ lastOp' = LikeRejected("like_comment", u, t, like_type, TRUE,
                                      "invalid_like_type")
            /\ UNCHANGED <<likes, like_count, dislike_count, nextPk>>
       ELSE LET db == toggle_like(Store(likes, like_count, dislike_count),
                                  nextPk, u, t, like_type)
            IN /\ LikeCommit(db)
               /\ lastOp' = LikeAnswer("like_comment", u, t, like_type, db,
                                       IF like_type = "like"
                                       THEN "Comment liked successfully"
                                       ELSE "Comment disliked successfully",
                                       IF like_type = "like"
                                       THEN "Comment like removed"
                                       ELSE "Comment dislike removed")
    /\ UNCHANGED <<wk, prevOp, target_status, authVars, permVars, sessVars>>

(* The targets are in any status; the store is empty or holds the one      *)
(* reaction a toggle_like left while its target was eligible.              *)
InitLikeApi ==
    /\ now = 0
    /\ tokens = {}
    /\ revoked = {}
    /\ lastOp = [op |-> "init"]
    /\ users = InitialUsers
    /\ authing = {}
    /\ viewing = NoViews
    /\ view_count = [t \in Articles |-> 0]
    /\ prevOp = [op |-> "init"]
    /\ wk = [w \in Workers |-> IdleWorker]
    /\ opsLeft = MaxOps
    /\ resources = {}
    /\ nextId = [k \in Kinds |-> 1]
    /\ target_status \in {f \in [Targets -> ArticleStatuses \cup CommentStatuses] :
                             \A t \in Targets :
                                f[t] \in IF IsArticle(t) THEN ArticleStatuses
                                         ELSE CommentStatuses}
    /\ \E db \in {EmptyStore} \cup {toggle_like(EmptyStore, 1, u, t, "like") :
                                      u \in Users, t \in Targets} :
          /\ likes = db.likes
          /\ like_count = db.like_count
          /\ dislike_count = db.dislike_count
          /\ nextPk = IF db.likes = {} THEN 1 ELSE 2

NextLikeApi ==
    \/ \E u \in Users, t \in {x \in Targets : IsArticle(x)} : like_article(u, t)
    \/ \E u \in Users, t \in {x \in Targets : ~IsArticle(x)},
          k \in LikeTypes \cup {InvalidType} : like_comment(u, t, k)

SpecLikeApi == InitLikeApi /\ [][NextLikeApi]_vars

----------------------------------------------------------------------------
(* The Like table by itself: which rows its constraints admit, whichever   *)
(* code writes them.                                                       *)

(* CheckConstraint like_must_have_target *)
like_must_have_target(row) == row.article # Null \/ row.comment # Null

(* UniqueConstraint unique_user_article_like, condition article not null *)
unique_user_article_like(lk, row) ==
    row.article # Null =>
        \A r \in lk : ~(r.user = row.user /\ r.article = row.article)

(* UniqueConstraint unique_user_comment_like, condition comment not null *)
unique_user_comment_like(lk, row) ==
    row.comment # Null =>
        \A r \in lk : ~(r.user = row.user /\ r.comment = row.comment)

(* Like.clean *)
Like_clean(row) ==
    /\ ~(row.article = Null /\ row.comment = Null)
    /\ ~(row.article # Null /\ row.comment # Null)

(* An INSERT into the table: the constraints decide. *)
Table_insert(u, article, comment, type) ==
    LET row == [pk |-> nextPk, user |-> u, article |-> article,
                comment |-> comment, like_type |-> type]
        admitted == /\ like_must_have_target(row)
                    /\ unique_user_article_like(likes, row)
                    /\ unique_user_comment_like(likes, row)
    IN /\ opsLeft > 0
       /\ opsLeft' = opsLeft - 1
       /\ likes' = IF admitted THEN likes \cup {row} ELSE likes
       /\ nextPk' = IF admitted THEN nextPk + 1 ELSE nextPk
       /\ lastOp' = [op |-> "insert", user |-> u, article |-> article,
                     comment |-> comment, kind |-> type, admitted |-> admitted,
                     clean |-> Like_clean(row)]
       /\ UNCHANGED <<like_count, dislike_count, wk, prevOp, target_status,
                      authVars, permVars, sessVars>>

NextLikeTable ==
    \E u \in Users, a \in {Null, "a1"}, c \in {Null, "c1"}, k \in LikeTypes :
        Table_insert(u, a, c, k)

SpecLikeTable == Init /\ [][NextLikeTable]_vars

----------------------------------------------------------------------------
(* Posts and comments of the api/posts and api/comments routers.  A row is *)
(* [kind, id, author, content, status, post]; post is the commented post   *)
(* of a comment and NoId for a post.  A post also has its view_count.      *)

Row(rs, kind, id) == {r \in rs : r.kind = kind /\ r.id = id}

(* The request the framework hands to an auth callable: Django's request   *)
(* object carries no path_params attribute; query is the value of a query  *)
(* parameter named "id" or "..._id", NoId when the query string has none.  *)
Request(toks, cred, t, method, query) ==
    [user |-> process_request(toks, cred, t).user,
     auth |-> process_request(toks, cred, t).auth,
     method |-> method, has_path_params |-> FALSE, path_params |-> NoId,
     query |-> query]

(* IsOwnerOrReadOnly._get_object_id_from_request *)
_get_object_id_from_request(req) ==
    IF req.has_path_params /\ req.path_params # NoId THEN req.path_params
    ELSE req.query

(* IsOwnerOrReadOnly.__call__ for model_class = kind *)
IsOwnerOrReadOnly(rs, kind, req) ==
    IF req.method \in {"GET", "HEAD", "OPTIONS"} THEN TRUE
    ELSE LET obj_id == _get_object_id_from_request(req)
         IN IF obj_id = NoId THEN FALSE
            ELSE IF Row(rs, kind, obj_id) = {} THEN FALSE
            ELSE (CHOOSE r \in Row(rs, kind, obj_id) : TRUE).author = req.user

(* What the handler of a mutating request records. *)
MutationOp(op, kind, req, id, query, status) ==
    [op |-> op, kind |-> kind, principal |-> req.user,
     path_id |-> id, query_id |-> query, status |-> status]

(* POST /posts: create_post.  Without a slug in the body the handler calls *)
(* self._generate_slug, and self is not defined in a function.             *)
create_post(cred, status, has_slug) ==
    LET req == IsAuthenticated(process_request(tokens, cred, now))
        created == req.status = 200 /\ has_slug
    IN /\ nextId["post"] <= MaxPosts
       /\ resources' = IF created
                       THEN resources \cup {[kind |-> "post", id |-> nextId["post"],
                                             author |-> req.user, content |-> "text0",
                                             status |-> status, post |-> NoId,
                                             view_count |-> 0]}
                       ELSE resources
       /\ nextId' = IF created THEN [nextId EXCEPT !["post"] = @ + 1] ELSE nextId
       /\ lastOp' = [op |-> "create_post",
                     principal |-> IF req.status = 200 THEN req.user ELSE NoUser,
                     status |-> IF req.status # 200 THEN req.status
                                ELSE IF has_slug THEN 200 ELSE 500]
       /\ UNCHANGED <<authVars, likeVars, sessVars>>

(* POST /comments: create_comment *)
create_comment(cred, post_id) ==
    LET req == IsAuthenticated(process_request(tokens, cred, now))
        post == Row(resources, "post", post_id)
        status == IF req.status # 200 THEN req.status
                  ELSE IF post = {} THEN 404
                  ELSE IF (CHOOSE r \in post : TRUE).status # "published" THEN 400
                  ELSE 200
    IN /\ nextId["comment"] <= MaxComments
       /\ resources' = IF status = 200
                       THEN resources \cup {[kind |-> "comment",
                                             id |-> nextId["comment"],
                                             author |-> req.user, content |-> "text0",
                                             status |-> "approved", post |-> post_id]}
                       ELSE resources
       /\ nextId' = IF status = 200 THEN [nextId EXCEPT !["comment"] = @ + 1]
                    ELSE nextId
       /\ lastOp' = [op |-> "create_comment",
                     principal |-> IF req.status = 200 THEN req.user ELSE NoUser,
                     status |-> status]
       /\ UNCHANGED <<authVars, likeVars, sessVars>>

(* PUT /posts/{post_id}: auth=IsPostOwner(), then get_object_or_404 by    *)
(* the path's id and the save of the passed fields.                      *)
update_post(cred, post_id, query, data) ==
    LET req == Request(tokens, cred, now, "PUT", query)
        status == IF ~IsOwnerOrReadOnly(resources, "post", req) THEN 401
                  ELSE IF Row(resources, "post", post_id) = {} THEN 404 ELSE 200
    IN /\ resources' = IF status = 200
                       THEN {IF r.kind = "post" /\ r.id = post_id
                             THEN [r EXCEPT !.content = data] ELSE r : r \in resources}
                       ELSE resources
       /\ lastOp' = MutationOp("update", "post", req, post_id, query, status)
       /\ UNCHANGED <<authVars, likeVars, nextId, sessVars>>

(* DELETE /posts/{post_id}: auth=IsPostOwner(); the post's comments go   *)
(* with it.                                                              *)
delete_post(cred, post_id, query) ==
    LET req == Request(tokens, cred, now, "DELETE", query)
        status == IF ~IsOwnerOrReadOnly(resources, "post", req) THEN 401
                  ELSE IF Row(resources, "post", post_id) = {} THEN 404 ELSE 200
    IN /\ resources' = IF status = 200
                       THEN {r \in resources :
                                /\ ~(r.kind = "post" /\ r.id = post_id)
                                /\ ~(r.kind = "comment" /\ r.post = post_id)}
                       ELSE resources
       /\ lastOp' = MutationOp("delete", "post", req, post_id, query, status)
       /\ UNCHANGED <<authVars, likeVars, nextId, sessVars>>

(* PUT /comments/{comment_id}: auth=IsCommentOwner() *)
update_comment(cred, comment_id, query, data) ==
    LET req == Request(tokens, cred, now, "PUT", query)
        status == IF ~IsOwnerOrReadOnly(resources, "comment", req) THEN 401
                  ELSE IF Row(resources, "comment", comment_id) = {} THEN 404
                  ELSE 200
    IN /\ resources' = IF status = 200
                       THEN {IF r.kind = "comment" /\ r.id = comment_id
                             THEN [r EXCEPT !.content = data] ELSE r : r \in resources}
                       ELSE resources
       /\ lastOp' = MutationOp("update", "comment", req, comment_id, query, status)
       /\ UNCHANGED <<authVars, likeVars, nextId, sessVars>>

(* DELETE /comments/{comment_id}: auth=IsCommentOwner() *)
delete_comment(cred, comment_id, query) ==
    LET req == Request(tokens, cred, now, "DELETE", query)
        status == IF ~IsOwnerOrReadOnly(resources, "comment", req) THEN 401
                  ELSE IF Row(resources, "comment", comment_id) = {} THEN 404
                  ELSE 200
    IN /\ resources' = IF status = 200
                       THEN {r \in resources :
                                ~(r.kind = "comment" /\ r.id = comment_id)}
                       ELSE resources
       /\ lastOp' = MutationOp("delete", "comment", req, comment_id, query, status)
       /\ UNCHANGED <<authVars, likeVars, nextId, sessVars>>

(* Every principal holds one login token. *)
InitOwner ==
    /\ now = 0
    /\ tokens = create_user_token(create_user_token(create_user_token({},
                    "alice", 0), "bob", 0), "root", 0)
    /\ revoked = {}
    /\ lastOp = [op |-> "init"]
    /\ users = InitialUsers
    /\ authing = {}
    /\ viewing = NoViews
    /\ view_count = [t \in Articles |-> 0]
    /\ prevOp = [op |-> "init"]
    /\ likes = {}
    /\ like_count = [t \in Targets |-> 0]
    /\ dislike_count = [t \in Targets |-> 0]
    /\ nextPk = 1
    /\ wk = [w \in Workers |-> IdleWorker]
    /\ opsLeft = MaxOps
    /\ resources = {}
    /\ nextId = [k \in Kinds |-> 1]
    /\ target_status = AllEligible

PostIds == 1 .. MaxPosts
CommentIds == 1 .. MaxComments

(* The bearer secrets of the three logged-in principals, or no header. *)
OwnerCredentials == {"k1", "k2", "k3", NoHeader}

NextOwner ==
    \/ \E c \in OwnerCredentials, sl \in BOOLEAN : create_post(c, "published", sl)
    \/ \E c \in OwnerCredentials, i \in PostIds : create_comment(c, i)
    \/ \E c \in OwnerCredentials, i \in PostIds, q \in {NoId} \cup PostIds :
          update_post(c, i, q, NewContent)
    \/ \E c \in OwnerCredentials, i \in PostIds, q \in {NoId} \cup PostIds :
          delete_post(c, i, q)
    \/ \E c \in OwnerCredentials, i \in CommentIds, q \in {NoId} \cup CommentIds :
          update_comment(c, i, q, NewContent)
    \/ \E c \in OwnerCredentials, i \in CommentIds, q \in {NoId} \cup CommentIds :
          delete_comment(c, i, q)

SpecOwner == InitOwner /\ [][NextOwner]_vars

----------------------------------------------------------------------------
(* The read routes of the posts router and the system routes of the API.   *)

(* The posts router's auth, TokenAuthentication, a bearer scheme: without  *)
(* an Authorization header the request fails authentication; with one,     *)
(* authenticate decides and a success records the token's last_used.       *)
TokenAuthentication(toks, cred, t) ==
    IF cred = NoHeader
    THEN [status |-> 401, user |-> NoUser, tokens |-> toks, looked_up |-> FALSE]
    ELSE IF SecretLen(cred) # TokenLength
    THEN [status |-> 401, user |-> NoUser, tokens |-> toks, looked_up |-> FALSE]
    ELSE IF ValidTokenRows(toks, cred, t) # {}
    THEN LET row == CHOOSE r \in ValidTokenRows(toks, cred, t) : TRUE
         IN [status |-> 200, user |-> row.user,
             tokens |-> (toks \ {row}) \cup {[row EXCEPT !.last_used = t]},
             looked_up |-> TRUE]
    ELSE [status |-> 401, user |-> NoUser, tokens |-> toks, looked_up |-> TRUE]

PublishedPosts(rs) == {r \in rs : r.kind = "post" /\ r.status = "published"}

(* GET /posts: list_posts, which inherits the router's auth. *)
list_posts(cred) ==
    LET req == TokenAuthentication(tokens, cred, now)
    IN /\ tokens' = req.tokens
       /\ lastOp' = [op |-> "list_posts", secret |-> cred, status |-> req.status,
                     principal |-> req.user,
                     total_count |-> IF req.status = 200
                                     THEN Cardinality(PublishedPosts(resources))
                                     ELSE 0]
       /\ UNCHANGED <<now, revoked, likeVars, permVars, sessVars>>

(* GET /posts/{post_id}: get_post, which inherits the router's auth; a     *)
(* post that is not published is shown to its author and to staff only.    *)
get_post(cred, post_id) ==
    LET req == TokenAuthentication(tokens, cred, now)
        post == Row(resources, "post", post_id)
        p == CHOOSE r \in post : TRUE
        status == IF req.status # 200 THEN req.status
                  ELSE IF post = {} THEN 404
                  ELSE IF p.status # "published" /\ p.author # req.user
                          /\ ~is_staff(req.user) THEN 404
                  ELSE 200
    IN /\ post # {} => p.view_count < MaxViews
       /\ tokens' = req.tokens
       /\ resources' = IF status = 200
                       THEN (resources \ {p}) \cup {[p EXCEPT !.view_count = @ + 1]}
                       ELSE resources
       /\ viewing' = IF status = 200
                     THEN [viewing EXCEPT !.served[post_id] = @ + 1] ELSE viewing
       /\ lastOp' = [op |-> "get_post", secret |-> cred, status |-> status,
                     principal |-> req.user,
                     published |-> post # {} /\ p.status = "published",
                     author |-> IF post # {} THEN p.author ELSE NoUser]
       /\ UNCHANGED <<now, revoked, likeVars, nextId, users, authing, view_count>>

(* GET /health *)
health_check ==
    /\ lastOp' = [op |-> "health_check", secret |-> NoHeader, status |-> 200,
                  principal |-> NoUser]
    /\ UNCHANGED <<authVars, likeVars, permVars, sessVars>>

(* GET /info *)
api_info ==
    /\ lastOp' = [op |-> "api_info", secret |-> NoHeader, status |-> 200,
                  principal |-> NoUser]
    /\ UNCHANGED <<authVars, likeVars, permVars, sessVars>>

PublicCredentials == OwnerCredentials \cup {"short"}

NextPublic ==
    \/ \E c \in OwnerCredentials, st \in {"draft", "published"} :
          create_post(c, st, TRUE)
    \/ \E c \in PublicCredentials : list_posts(c)
    \/ \E c \in PublicCredentials, i \in PostIds : get_post(c, i)
    \/ health_check
    \/ api_info

SpecPublic == InitOwner /\ [][NextPublic]_vars

----------------------------------------------------------------------------
(* Concurrent reads of one post.  get_post loads the row                   *)
(* (get_object_or_404), adds one to the loaded view_count in memory and    *)
(* writes the sum with save(update_fields=['view_count']); other requests  *)
(* can run between the load and the write.                                 *)

ViewWorkers == {"w1", "w2"}
ViewCredentials == {"k1", "k2"}

InFlight(post_id) == {v \in viewing.loaded : v.post_id = post_id}

(* get_post up to the access check: a refusal ends the request, otherwise  *)
(* the request holds the loaded row.                                       *)
GetPostLoad(w, cred, post_id) ==
    LET req == TokenAuthentication(tokens, cred, now)
        post == Row(resources, "post", post_id)
        p == CHOOSE r \in post : TRUE
        status == IF req.status # 200 THEN req.status
                  ELSE IF post = {} THEN 404
                  ELSE IF p.status # "published" /\ p.author # req.user
                          /\ ~is_staff(req.user) THEN 404
                  ELSE 200
    IN /\ \A v \in viewing.loaded : v.worker # w
       /\ viewing.served[post_id] + Cardinality(InFlight(post_id)) < MaxViews
       /\ tokens' = req.tokens
       /\ viewing' = IF status = 200
                     THEN [viewing EXCEPT !.loaded =
                             @ \cup {[worker |-> w, secret |-> cred,
                                      principal |-> req.user, post_id |-> post_id,
                                      view_count |-> p.view_count]}]
                     ELSE viewing
       /\ lastOp' = IF status = 200 THEN [op |-> "load_post", secret |-> cred]
                    ELSE [op |-> "get_post", secret |-> cred, status |-> status,
                          principal |-> req.user,
                          published |-> post # {} /\ p.status = "published",
                          author |-> IF post # {} THEN p.author ELSE NoUser]
       /\ UNCHANGED <<now, revoked, likeVars, permVars, users, authing, view_count>>

(* post.view_count += 1; post.save(update_fields=['view_count']) *)
GetPostSave(w) ==
    \E v \in viewing.loaded :
        /\ v.worker = w
        /\ resources' = {IF r.kind = "post" /\ r.id = v.post_id
                         THEN [r EXCEPT !.view_count = v.view_count + 1] ELSE r
                            : r \in resources}
        /\ viewing' = [loaded |-> viewing.loaded \ {v},
                       served |-> [viewing.served EXCEPT ![v.post_id] = @ + 1]]
        /\ lastOp' = [op |-> "get_post", secret |-> v.secret, status |-> 200,
                      principal |-> v.principal,
                      published |-> \E r \in Row(resources, "post", v.post_id) :
                                        r.status = "published",
                      author |-> (CHOOSE r \in Row(resources, "post", v.post_id) :
                                    TRUE).author]
        /\ UNCHANGED <<authVars, likeVars, nextId, users, authing, view_count>>

NextViews ==
    \/ \E c \in ViewCredentials, st \in {"draft", "published"} : create_post(c, st, TRUE)
    \/ \E w \in ViewWorkers, c \in ViewCredentials, i \in PostIds : GetPostLoad(w, c, i)
    \/ \E w \in ViewWorkers : GetPostSave(w)

SpecViews == InitOwner /\ [][NextViews]_vars

----------------------------------------------------------------------------
(* Reading one post or article. *)

Principals == Users \cup {"root", NoUser}

(* GET /articles/{article_id_or_slug}: get_article has no auth of its own; *)
(* u is request.user.  The view is counted by                              *)
(* ArticleService.increment_view_count with one relative UPDATE,           *)
(* view_count = F('view_count') + 1.                                       *)
get_article(u, t) ==
    LET status == IF ~is_published(target_status[t]) /\ u = NoUser THEN 403
                  ELSE IF require_login(t) /\ u = NoUser THEN 401
                  ELSE 200
    IN /\ view_count[t] < MaxViews
       /\ view_count' = IF status = 200 THEN [view_count EXCEPT ![t] = @ + 1]
                        ELSE view_count
       /\ lastOp' = [op |-> "get_article", secret |-> NoHeader, status |-> status,
                     principal |-> u,
                     published |-> is_published(target_status[t]),
                     author |-> author(t)]
       /\ UNCHANGED <<authVars, likeVars, permVars, users, authing, viewing>>

(* The three principals are logged in; the article is a draft or published. *)
InitRead ==
    /\ now = 0
    /\ tokens = create_user_token(create_user_token(create_user_token({},
                    "alice", 0), "bob", 0), "root", 0)
    /\ revoked = {}
    /\ lastOp = [op |-> "init"]
    /\ users = InitialUsers
    /\ authing = {}
    /\ viewing = NoViews
    /\ view_count = [t \in Articles |-> 0]
    /\ prevOp = [op |-> "init"]
    /\ likes = {}
    /\ like_count = [t \in Targets |-> 0]
    /\ dislike_count = [t \in Targets |-> 0]
    /\ nextPk = 1
    /\ wk = [w \in Workers |-> IdleWorker]
    /\ opsLeft = MaxOps
    /\ resources = {}
    /\ nextId = [k \in Kinds |-> 1]
    /\ target_status \in {f \in [Targets -> ArticleStatuses \cup CommentStatuses] :
                             /\ f["a1"] \in ArticleStatuses
                             /\ f["c1"] = "approved"}

NextRead ==
    \/ \E c \in OwnerCredentials, st \in {"draft", "published"} :
          create_post(c, st, TRUE)
    \/ \E c \in OwnerCredentials, i \in PostIds : get_post(c, i)
    \/ \E u \in Principals, t \in Articles : get_article(u, t)

SpecRead == InitRead /\ [][NextRead]_vars

----------------------------------------------------------------------------
(* Properties of the reaction counters *)

(* The transition table of the reaction state machine. *)
TableNext(cur, k) == IF cur = k THEN NoType ELSE k
TableLikeDelta(cur, k) ==
    (IF k = "like" /\ cur # "like" THEN 1 ELSE 0) - (IF cur = "like" THEN 1 ELSE 0)
TableDislikeDelta(cur, k) ==
    (IF k = "dislike" /\ cur # "dislike" THEN 1 ELSE 0)
        - (IF cur = "dislike" THEN 1 ELSE 0)

(* C4: one toggle_like call on a comment moves the (principal, comment)    *)
(* pair to the table's next state and changes like_count and dislike_count *)
(* by exactly the table's delta.                                           *)
C4_TransitionTable ==
    (lastOp.op = "toggle_like" /\ ~IsArticle(lastOp.target)) =>
        /\ lastOp.row_after = TableNext(lastOp.first, lastOp.kind)
        /\ lastOp.like_after - lastOp.like_before
              = TableLikeDelta(lastOp.first, lastOp.kind)
        /\ lastOp.dislike_after - lastOp.dislike_before
              = TableDislikeDelta(lastOp.first, lastOp.kind)

(* C5: toggle_like(p, r, like) twice in sequence from no reaction ends     *)
(* with no Like row of (p, r) and like_count back at its original value.   *)
C5_RoundTrip ==
    ( /\ lastOp.op = "toggle_like" /\ prevOp.op = "toggle_like"
      /\ lastOp.user = prevOp.user /\ lastOp.target = prevOp.target
      /\ lastOp.kind = "like" /\ prevOp.kind = "like"
      /\ prevOp.first = NoType ) =>
        /\ lastOp.row_after = NoType
        /\ lastOp.like_after = prevOp.like_before

(* C6: when every one of the N principals has finished their one like of a *)
(* resource none of them had reacted to, its like_count is N.              *)
C6_NoLostUpdates ==
    \A t \in Targets :
        (\A w \in Workers : wk[w].pc = "idle" /\ PairRows(likes, PrincipalOf[w], t) # {})
            => like_count[t] = Cardinality(Workers)

(* C7: like_count and dislike_count of every resource are never negative,  *)
(* whatever toggles ran and however they interleaved.                      *)
C7_CountersNonNegative ==
    \A t \in Targets : like_count[t] >= 0 /\ dislike_count[t] >= 0

(* A toggle whose decrement would have taken a counter below zero was      *)
(* aborted by the store.                                                   *)
C7_Witness ==
    /\ lastOp.op = "toggle_like"
    /\ lastOp.action = "error"
    /\ lastOp.error = "check"
    /\ \E t \in Targets : like_count[t] = 0 \/ dislike_count[t] = 0

----------------------------------------------------------------------------
(* Properties of the bearer tokens *)

AuthOps == {"authenticate", "profile", "logout", "revoke_all"}

TokenUsable(s) ==
    \E r \in tokens : r.token = s /\ r.is_active /\ now < r.expires_at

(* C1: a bearer secret resolves to a principal exactly when a stored     *)
(* token with that secret exists, is active, and the current time is     *)
(* strictly before its expiry.                                           *)
C1_ResolveIffValid ==
    lastOp.op \in {"authenticate", "profile"} =>
        ((lastOp.principal # NoUser) <=> TokenUsable(lastOp.secret))

(* C1's case: an active token presented at the very instant it expires   *)
(* is rejected, and its row is still stored.                             *)
C1_Witness ==
    /\ lastOp.op = "authenticate"
    /\ lastOp.principal = NoUser
    /\ \E r \in tokens : r.token = lastOp.secret /\ r.is_active /\ r.expires_at = now

(* C2: once a principal's tokens were revoked, no request carrying one   *)
(* of the secrets issued to it before the revocation authenticates.      *)
C2_RevokedStayRejected ==
    [][(lastOp'.op \in AuthOps /\ lastOp'.principal # NoUser)
          => lastOp'.secret \notin revoked]_vars

(* C2's case: a revoked secret whose token has not expired is presented  *)
(* and rejected while its principal holds another, newer token.          *)
C2_Witness ==
    /\ lastOp.op = "authenticate"
    /\ lastOp.secret \in revoked
    /\ lastOp.principal = NoUser
    /\ \E r \in tokens : /\ r.token = lastOp.secret
                         /\ now < r.expires_at
                         /\ \E r2 \in tokens : r2.user = r.user /\ r2.is_active

----------------------------------------------------------------------------
(* Properties of the ownership gate *)

MutatingOps == {"update", "delete"}

AuthorOf(kind, id) == (CHOOSE r \in Row(resources, kind, id) : TRUE).author

(* C8: an administrator's update or delete of any existing post or       *)
(* comment is permitted.                                                 *)
C8_AdminPermitted ==
    [][(/\ lastOp'.op \in MutatingOps
        /\ Row(resources, lastOp'.kind, lastOp'.path_id) # {}
        /\ is_admin(lastOp'.principal))
          => lastOp'.status = 200]_vars

C10_AuthorPermitted ==
    [][(/\ lastOp'.op \in MutatingOps
        /\ Row(resources, lastOp'.kind, lastOp'.path_id) # {}
        /\ AuthorOf(lastOp'.kind, lastOp'.path_id) = lastOp'.principal)
          => lastOp'.status = 200]_vars

----------------------------------------------------------------------------
(* Properties of the routes' gates *)

GatedOps == {"create_post", "create_comment", "update", "delete"}

(* C11: a request to a mutating endpoint that carries no valid credential *)
(* is answered with 401 and changes no stored post, comment or token.     *)
C11_UnauthenticatedRejected ==
    [][(lastOp'.op \in GatedOps /\ lastOp'.principal = NoUser)
          => (/\ lastOp'.status = 401
              /\ resources' = resources
              /\ tokens' = tokens)]_vars

PublicOps == {"list_posts", "health_check", "api_info"}

(* C12: listing the published posts, reading a published post, and the    *)
(* health and info routes answer 200 to a request with no credential.     *)
C12_PublicWithoutCredential ==
    lastOp.op \in PublicOps \cup {"get_post"} /\ lastOp.secret = NoHeader
        => (lastOp.op = "get_post" /\ ~lastOp.published) \/ lastOp.status = 200

----------------------------------------------------------------------------
(* Properties of the Like rows *)

(* C13: no (user, article) pair and no (user, comment) pair ever has more *)
(* than one Like row, whatever toggles ran and however they interleaved.  *)
C13_OneRowPerPair ==
    \A r1 \in likes, r2 \in likes :
        /\ (r1.user = r2.user /\ r1.article # Null /\ r1.article = r2.article)
              => r1 = r2
        /\ (r1.user = r2.user /\ r1.comment # Null /\ r1.comment = r2.comment)
              => r1 = r2

(* C13's case: two toggles of one principal on one resource both found no *)
(* row; the second insert was refused and the pair has its one row.       *)
C13_Witness ==
    /\ lastOp.op = "toggle_like"
    /\ lastOp.error = "unique"
    /\ lastOp.first = NoType
    /\ Cardinality(PairRows(likes, lastOp.user, lastOp.target)) = 1

(* C14: a toggle that found no reaction of its pair and lost the insert   *)
(* race to a concurrent toggle of the same pair still completes: no       *)
(* toggle that started from no reaction ends with an error.               *)
C14_InsertRaceRetried ==
    (lastOp.op = "toggle_like" /\ lastOp.first = NoType)
        => lastOp.action # "error"

(* C15: every stored Like row has exactly one target, an article or a     *)
(* comment, and the table itself guarantees it: no row with both targets  *)
(* or with none is admitted by the table's constraints.                   *)
C15_ExactlyOneTarget ==
    \A r \in likes : (r.article = Null) # (r.comment = Null)

----------------------------------------------------------------------------
(* Properties of the reaction endpoints *)

LikeApiOps == {"like_article", "like_comment"}

(* C16: a reaction request on an article that is not published or on a    *)
(* comment that is not approved is rejected before any transition: no     *)
(* Like row is created, changed or deleted and no counter changes.        *)
C16_IneligibleRejected ==
    [][(/\ lastOp'.op \in LikeApiOps
        /\ IF IsArticle(lastOp'.target)
           THEN target_status[lastOp'.target] # "published"
           ELSE target_status[lastOp'.target] # "approved")
          => (/\ lastOp'.status = 400
              /\ lastOp'.action = "none"
              /\ likes' = likes
              /\ like_count' = like_count
              /\ dislike_count' = dislike_count)]_vars

(* C16's case: the principal already has a reaction on the target, which  *)
(* is no longer eligible; the request that would have removed it was      *)
(* rejected and the row is still there.                                   *)
C16_Witness ==
    /\ lastOp.op \in LikeApiOps
    /\ lastOp.code \in {"not_published", "not_approved"}
    /\ lastOp.first = lastOp.kind
    /\ PairRows(likes, lastOp.user, lastOp.target) # {}
    /\ like_count[lastOp.target] > 0

AllowedKinds(t) == IF IsArticle(t) THEN {"like"} ELSE LikeTypes

(* C17: toggle_like with a kind that the target's type does not allow is  *)
(* rejected as an invalid kind and leaves the pair's row and the counters *)
(* as they were; an article allows like only.                             *)
C17_InvalidKindRejected ==
    (lastOp.op = "toggle_like" /\ lastOp.kind \notin AllowedKinds(lastOp.target))
        => /\ lastOp.error = "invalid_like_type"
           /\ lastOp.row_after = lastOp.first
           /\ lastOp.like_after = lastOp.like_before
           /\ lastOp.dislike_after = lastOp.dislike_before

(* The outcome a caller reads from the endpoint's answer. *)
ReportedOutcome(detail) ==
    IF detail \in {"Article liked successfully", "Comment liked successfully",
                   "Comment disliked successfully"} THEN "added"
    ELSE IF detail \in {"Article like removed", "Comment like removed",
                        "Comment dislike removed"} THEN "removed"
    ELSE "changed"

(* C18: the answer of a reaction request that succeeded reports 'added'   *)
(* when the principal had no reaction, 'removed' when the reaction of the *)
(* same kind was taken back, and 'changed' when the kind was switched.    *)
C18_OutcomeReported ==
    (lastOp.op \in LikeApiOps /\ lastOp.status = 200) =>
        ReportedOutcome(lastOp.detail)
            = IF lastOp.first = NoType THEN "added"
              ELSE IF lastOp.first = lastOp.kind THEN "removed"
              ELSE "changed"

----------------------------------------------------------------------------
(* Properties of the authentication paths *)

(* C19: a request whose bearer credential is absent or not exactly        *)
(* TokenLength long is rejected, and no path queries the token table for  *)
(* it.                                                                    *)
C19_NoLookupForMalformed ==
    (/\ lastOp.op \in AuthOps
     /\ (lastOp.secret = NoHeader \/ SecretLen(lastOp.secret) # TokenLength))
        => (lastOp.principal = NoUser /\ ~lastOp.looked_up)

(* C20: whenever a request is authenticated by a token, on any path, that *)
(* token's last_used is the time of the request.                          *)
C20_LastUsedUpdated ==
    (lastOp.op \in AuthOps /\ lastOp.principal # NoUser) =>
        \E r \in tokens : r.token = lastOp.secret /\ r.last_used = now


----------------------------------------------------------------------------
(* Authentication racing with revocation.  TokenAuthentication.authenticate *)
(* reads the token row (AuthToken.objects.get) and later writes it back     *)
(* with save(update_fields=['last_used']); a revocation can commit between  *)
(* the two statements.                                                      *)

RaceSecrets == {"k1", "k2"}

(* authenticate up to the lookup: a rejection ends the call, a found row   *)
(* is held by the call together with the time it will write.               *)
AuthLookup(s) ==
    /\ \A a \in authing : a.secret # s
    /\ IF SecretLen(s) # TokenLength
       THEN /\ lastOp' = [op |-> "authenticate", secret |-> s, status |-> 401,
                          principal |-> NoUser, detail |-> "Invalid token length",
                          looked_up |-> FALSE]
            /\ UNCHANGED authing
       ELSE IF ValidTokenRows(tokens, s, now) # {}
       THEN /\ authing' = authing \cup {[secret |-> s, last_used |-> now]}
            /\ lastOp' = [op |-> "lookup", secret |-> s]
       ELSE /\ lastOp' = [op |-> "authenticate", secret |-> s, status |-> 401,
                          principal |-> NoUser,
                          detail |-> DoesNotExistDetail(tokens, s, now),
                          looked_up |-> TRUE]
            /\ UNCHANGED authing
    /\ UNCHANGED <<authVars, likeVars, permVars, users, viewing, view_count>>

(* A write-back that would save every field of the row as it was read. *)
save_all_fields(toks, a) ==
    {IF r.token = a.secret
     THEN [r EXCEPT !.last_used = a.last_used, !.is_active = TRUE] ELSE r
        : r \in toks}

(* auth_token.save(update_fields=['last_used']): only the last_used column *)
(* of the row is written.                                                  *)
save_last_used(toks, a) ==
    {IF r.token = a.secret THEN [r EXCEPT !.last_used = a.last_used] ELSE r
        : r \in toks}

(* authenticate from the write of last_used to its return. *)
AuthSave(s) ==
    \E a \in authing :
        /\ a.secret = s
        /\ authing' = authing \ {a}
        /\ tokens' = save_last_used(tokens, a)
        /\ lastOp' = [op |-> "authenticate", secret |-> s, status |-> 200,
                      principal |-> (CHOOSE r \in TokenRows(tokens, s) : TRUE).user,
                      detail |-> "", looked_up |-> TRUE]
        /\ UNCHANGED <<now, revoked, likeVars, permVars, users, viewing, view_count>>

NextAuthRace ==
    \/ Tick
    \/ \E s \in RaceSecrets : AuthLookup(s)
    \/ \E s \in RaceSecrets : AuthSave(s)
    \/ \E c \in RaceSecrets : Logout(c)
    \/ \E c \in RaceSecrets : RevokeAll(c)

SpecAuthRace == InitOwner /\ [][NextAuthRace]_vars

----------------------------------------------------------------------------
(* Accounts: registration, login and deactivation of users.                *)

MinPasswordLength == 8
Passwords == {Password, "wrongpass", "abc"}
PasswordLen(p) == IF p = "abc" THEN 3 ELSE IF p = "wrongpass" THEN 9 ELSE 11

(* The authentication backend decides whether an inactive account may     *)
(* authenticate: ModelBackend refuses it, AllowAllUsersModelBackend does  *)
(* not.                                                                   *)
Backends == {"ModelBackend", "AllowAllUsersModelBackend"}

(* A credential check that would accept any password of a known account. *)
authenticate_any_password(usrs, username, password, backend) ==
    IF /\ usrs[username].registered
       /\ (usrs[username].is_active \/ backend = "AllowAllUsersModelBackend")
    THEN username ELSE NoUser

(* django.contrib.auth.authenticate(username, password) *)
authenticate(usrs, username, password, backend) ==
    IF /\ usrs[username].registered
       /\ usrs[username].password = password
       /\ (usrs[username].is_active \/ backend = "AllowAllUsersModelBackend")
    THEN username ELSE NoUser

(* The answer of register and login: the secret and its measured length. *)
TokenAnswer(op, username, password, toks) ==
    [op |-> op, user |-> username, password |-> password, status |-> 200,
     token |-> generate_token(toks),
     token_length |-> SecretLen(generate_token(toks))]

NoTokenAnswer(op, username, password, status) ==
    [op |-> op, user |-> username, password |-> password, status |-> status,
     token |-> "", token_length |-> 0]

(* POST /auth/register *)
register(username, password, password_confirm) ==
    LET status == IF PasswordLen(password) < MinPasswordLength THEN 400
                  ELSE IF password # password_confirm THEN 400
                  ELSE IF users[username].registered THEN 400
                  ELSE 200
    IN /\ status = 200 => CanGenerate(tokens)
       /\ users' = IF status = 200
                   THEN [users EXCEPT ![username] =
                            [registered |-> TRUE, is_active |-> TRUE,
                             password |-> password]]
                   ELSE users
       /\ tokens' = IF status = 200 THEN create_user_token(tokens, username, now)
                    ELSE tokens
       /\ lastOp' = IF status = 200
                    THEN TokenAnswer("register", username, password, tokens)
                    ELSE NoTokenAnswer("register", username, password, status)
       /\ UNCHANGED <<now, revoked, likeVars, permVars, authing, viewing, view_count>>

(* POST /auth/login *)
login(username, password) ==
    \E backend \in Backends :
        LET user == authenticate(users, username, password, backend)
            status == IF user = NoUser THEN 401
                      ELSE IF ~users[user].is_active THEN 401
                      ELSE 200
        IN /\ status = 200 => CanGenerate(tokens)
           /\ tokens' = IF status = 200 THEN create_user_token(tokens, user, now)
                        ELSE tokens
           /\ lastOp' = IF status = 200
                        THEN TokenAnswer("login", username, password, tokens)
                        ELSE NoTokenAnswer("login", username, password, status)
           /\ UNCHANGED <<now, revoked, likeVars, permVars, sessVars>>

(* The admin site clears is_active of an account. *)
deactivate_user(u) ==
    /\ users[u].registered
    /\ users[u].is_active
    /\ users' = [users EXCEPT ![u].is_active = FALSE]
    /\ lastOp' = [op |-> "deactivate_user", user |-> u]
    /\ UNCHANGED <<authVars, likeVars, permVars, authing, viewing, view_count>>

(* The accounts and secrets the clients of this specification use. *)
AccountNames == {"alice", "carol"}
AccountSecrets == {"k1", "k2", "short"}

NextAccounts ==
    \/ Tick
    \/ \E u \in AccountNames, p \in Passwords, c \in {Password} : register(u, p, c)
    \/ \E u \in AccountNames, p \in {Password, "wrongpass"} : login(u, p)
    \/ \E u \in AccountNames : deactivate_user(u)
    \/ \E s \in AccountSecrets : Authenticate(s)
    \/ \E cred \in AccountSecrets : GetProfile(cred)

SpecAccounts == Init /\ [][NextAccounts]_vars


(* C21: any two well-formed secrets that authentication rejects, whatever  *)
(* the reason (no such token, expired token, deactivated token), get the   *)
(* same outcome: status 401 with the same detail.                          *)
RejectionReasons == {"unknown", "deactivated", "expired"}

RejectionReason(toks, s, t) ==
    IF TokenRows(toks, s) = {} THEN "unknown"
    ELSE IF \E r \in TokenRows(toks, s) : ~r.is_active THEN "deactivated"
    ELSE "expired"

C21_RejectionsIndistinguishable ==
    (/\ lastOp.op = "authenticate"
     /\ SecretLen(lastOp.secret) = TokenLength
     /\ lastOp.principal = NoUser)
    => /\ RejectionReason(tokens, lastOp.secret, now) \in RejectionReasons
       /\ lastOp.status = 401
       /\ lastOp.detail = "Invalid or expired token"

(* A deactivated token that has not expired is rejected while another      *)
(* secret is unknown to the store: two reasons, one outcome.               *)
C21_Witness ==
    /\ lastOp.op = "authenticate"
    /\ lastOp.principal = NoUser
    /\ lastOp.status = 401
    /\ RejectionReason(tokens, lastOp.secret, now) = "deactivated"
    /\ \A r \in TokenRows(tokens, lastOp.secret) : now < r.expires_at
    /\ \E s2 \in WellFormedSecrets : RejectionReason(tokens, s2, now) = "unknown"

(* An expired, still active token is rejected. *)
C21_WitnessExpired ==
    /\ lastOp.op = "authenticate"
    /\ lastOp.principal = NoUser
    /\ lastOp.status = 401
    /\ RejectionReason(tokens, lastOp.secret, now) = "expired"


(* C22: each token issue (a successful register or login) adds exactly one *)
(* token row, owned by the user, active, expiring TokenTTLDays after its   *)
(* creation, and leaves every previously issued token row unchanged.       *)
IssueOps == {"register", "login"}

C22_IssueAddsOneRow ==
    [][(lastOp'.op \in IssueOps /\ lastOp'.status = 200)
       => \E r \in tokens' :
            /\ r \notin tokens
            /\ tokens' = tokens \cup {r}
            /\ TokenRows(tokens, r.token) = {}
            /\ r.token = lastOp'.token
            /\ r.user = lastOp'.user
            /\ r.is_active
            /\ r.created_at = now
            /\ r.expires_at = now + TokenTTLDays]_vars

(* A login has issued a second token to a user who holds an earlier one. *)
C22_Witness ==
    /\ lastOp.op = "login"
    /\ lastOp.status = 200
    /\ \E r \in TokenRows(tokens, lastOp.token) :
          /\ r.expires_at = now + TokenTTLDays
          /\ \E r2 \in tokens : /\ r2.user = r.user
                                /\ r2.token # r.token
                                /\ r2.created_at < r.created_at

(* C23: every secret returned by registration or login has length exactly  *)
(* TokenLength, and the answer's token_length equals TokenLength.           *)
C23_IssuedLength ==
    (lastOp.op \in IssueOps /\ lastOp.status = 200)
    => /\ SecretLen(lastOp.token) = TokenLength
       /\ lastOp.token_length = TokenLength

(* A registration has answered with a secret and its length. *)
C23_Witness ==
    /\ lastOp.op = "register"
    /\ lastOp.status = 200
    /\ lastOp.token \in WellFormedSecrets
    /\ lastOp.token_length = TokenLength
    /\ TokenRows(tokens, lastOp.token) # {}

(* C26: a login with a wrong password, an unknown username or an inactive  *)
(* account answers 401 and creates no token row.                           *)
C26_FailedLoginNoToken ==
    [][(/\ lastOp'.op = "login"
        /\ \/ ~users[lastOp'.user].registered
           \/ users[lastOp'.user].password # lastOp'.password
           \/ ~users[lastOp'.user].is_active)
       => /\ lastOp'.status = 401
          /\ lastOp'.token = ""
          /\ tokens' = tokens]_vars

(* The correct password of a deactivated account has been refused while   *)
(* an earlier token of that account is still stored.                      *)
C26_Witness ==
    /\ lastOp.op = "login"
    /\ lastOp.status = 401
    /\ users[lastOp.user].registered
    /\ ~users[lastOp.user].is_active
    /\ users[lastOp.user].password = lastOp.password
    /\ \E r \in tokens : r.user = lastOp.user

(* C28: token authentication never yields a principal whose account is     *)
(* inactive: once a user is deactivated, every token issued to them        *)
(* earlier is rejected.                                                    *)
C28_InactivePrincipalRejected ==
    (lastOp.op \in {"authenticate", "profile"} /\ lastOp.principal # NoUser)
    => users[lastOp.principal].is_active


(* C24: the token table holds only a one-way digest of each issued secret, *)
(* never the raw secret: no stored value equals the secret that was        *)
(* returned to the client.                                                 *)
C24_StoreHoldsDigestOnly ==
    (lastOp.op \in IssueOps /\ lastOp.status = 200)
    => \A r \in tokens : r.token # lastOp.token


(* C25: a post or article that is not published is returned by its read    *)
(* endpoint only to its author or to an admin; unauthenticated and other   *)
(* principals get no content.                                              *)
ReadOps == {"get_post", "get_article"}

C25_UnpublishedOnlyToAuthorOrAdmin ==
    (lastOp.op \in ReadOps /\ lastOp.status = 200 /\ ~lastOp.published)
    => \/ lastOp.principal = lastOp.author
       \/ is_admin(lastOp.principal)
       \/ is_staff(lastOp.principal)


RevocationOps == {"logout", "revoke_all"}

NotInFlight(s) == \A a \in authing : a.secret # s

C29_LastUsedWriteKeepsInactive ==
    \A r \in tokens : r.token \in revoked => ~r.is_active

(* A call that read the token before the revocation has written last_used  *)
(* after it.                                                               *)
C29_RaceWitness ==
    /\ lastOp.op = "authenticate"
    /\ lastOp.status = 200
    /\ lastOp.secret \in revoked
    /\ \A r \in TokenRows(tokens, lastOp.secret) : ~r.is_active /\ r.last_used # Never


(* C30: each successful get_post read increases the post's view_count by   *)
(* exactly one: once N reads of a post have been served, concurrent ones   *)
(* included, its view_count has grown by N.                                *)
C30_EveryReadCounted ==
    \A r \in resources :
        (r.kind = "post" /\ InFlight(r.id) = {}) => r.view_count = viewing.served[r.id]

====
